---- MODULE Spec2Model ----
(***************************************************************************)
(* The tool execution loop of ChatOrchestrator                              *)
(* (backend/src/services/chat/ChatOrchestrator.ts): chatWithTools, the      *)
(* streaming accumulator accumulateStreamingResponse, the dispatcher        *)
(* executeToolCallWithTimeout / executeToolCall and formatToolResult.       *)
(*                                                                          *)
(* One run of the async generator chatWithTools is the state machine; the   *)
(* language-model stream (llmService.chatStream) and the tool provider      *)
(* (mcpService.executeTool) are the environment, whose chunks, errors,      *)
(* results and latencies are the inputs.  Message timestamps (Date.now())   *)
(* are not part of the state: no branch of the code reads them.             *)
(***************************************************************************)
EXTENDS Integers, Sequences, FiniteSets, TLC

\* ChatOrchestrator.ts:6-7
MAX_ITERATIONS == 10
TOOL_EXECUTION_TIMEOUT == 30000

\* Bounds of the exploration.
\* A run takes the default input (one complete call of a catalogued tool per
\* stream, a prompt successful provider result) except at MaxVariations
\* places; ending or failing a stream is always possible.
MaxVariations == 1
\* Chunks one model stream delivers in a whole run.
MaxChunks == 2
\* Chunks the stream delivers when a single turn is explored on its own.
MaxDeltas == 3
\* Fragments of the one chunk delivered when the dispatcher is explored on its
\* own (one fragment per index).
MaxCalls == 2

VARIABLES
    messages,             \* the caller's array (parameter of chatWithTools)
    conversationHistory,  \* let conversationHistory = [...messages]
    continueLoop,         \* let continueLoop
    iteration,            \* let iteration
    pc,                   \* where the generator is suspended
    events,               \* what the generator has yielded so far
    contentBuffer,        \* accumulateStreamingResponse: contentBuffer
    toolCallsBuffer,      \* accumulateStreamingResponse: toolCallsBuffer (a Map, in insertion order)
    finishReason,         \* accumulateStreamingResponse: finishReason
    toolCalls,            \* the completed calls of the turn (for ... of toolCalls)
    callIdx,              \* position of the for loop in toolCalls
    dispatch,             \* the promise executeToolCallWithTimeout is awaited on
    provider,             \* mcpService.executeTool calls that have not completed
    executed,             \* log: every mcpService.executeTool invocation
    streamsOpened,        \* log: number of llmService.chatStream calls
    streamInput,          \* log: the transcript the latest chatStream call was given
    delivered,            \* log: the chunks the open stream has delivered
    turnLog,              \* log: how each model stream ended
    variations,           \* log: non-default inputs taken so far
    other                 \* the frame of a second, suspended run (<<>>: none)

vars == <<messages, conversationHistory, continueLoop, iteration, pc, events,
          contentBuffer, toolCallsBuffer, finishReason, toolCalls, callIdx,
          dispatch, provider, executed, streamsOpened, streamInput, delivered,
          turnLog, variations, other>>

accVars == <<contentBuffer, toolCallsBuffer, finishReason>>
loopVars == <<continueLoop, iteration>>
toolVars == <<toolCalls, callIdx, dispatch, provider, executed>>

(***************************************************************************)
(* Optional values (a field that may be undefined): <<>> or <<v>>.          *)
(***************************************************************************)
None == <<>>
Some(v) == <<v>>
\* JavaScript truthiness of an optional string: defined and not empty.
Truthy(opt) == opt # None /\ opt[1] # ""

(***************************************************************************)
(* shared/types: Message, ToolCall, MCPTool, MCPToolResult                  *)
(***************************************************************************)
UserMessage(text) == [role |-> "user", content |-> text]
SystemMessage(text) == [role |-> "system", content |-> text]

\* The tool catalog passed to chatWithTools.  Two entries share the name t1.
tools ==
    << [name |-> "t1", serverId |-> "s1"],
       [name |-> "t1", serverId |-> "s2"],
       [name |-> "t2", serverId |-> "s2"] >>

TextItem(t) == [type |-> "text", text |-> Some(t), data |-> None]
DataItem(d) == [type |-> "resource", text |-> None, data |-> Some(d)]
EmptyItem == [type |-> "image", text |-> None, data |-> None]

ResultOk == [content |-> <<TextItem("r")>>, isError |-> Some(FALSE)]
ResultErr == [content |-> <<TextItem("e")>>, isError |-> Some(TRUE)]
ResultData ==
    [content |-> <<TextItem("r"), EmptyItem, DataItem("obj"), TextItem("")>>,
     isError |-> None]
Results == {ResultOk, ResultErr, ResultData}

(***************************************************************************)
(* ToolCallDelta (ChatOrchestrator.ts:9-17): function is undefined or an    *)
(* object whose name and arguments may each be undefined.                   *)
(***************************************************************************)
Delta(i, id, ty, nm, ar) ==
    [index |-> i, id |-> id, type |-> ty,
     function |-> IF nm = None /\ ar = None THEN None
                  ELSE Some([name |-> nm, arguments |-> ar])]

\* delta.function?.name and delta.function?.arguments
DeltaName(delta) == IF delta.function = None THEN None ELSE delta.function[1].name
DeltaArguments(delta) ==
    IF delta.function = None THEN None ELSE delta.function[1].arguments

\* The chunks of llmService.chatStream that accumulateStreamingResponse reads.
ContentChunk(text) == [type |-> "content", content |-> text, tool_call |-> None]
\* tool_call holds the array of deltas (a single delta is the array of one).
ToolCallChunk(deltas) == [type |-> "tool_call", content |-> "", tool_call |-> Some(deltas)]
\* A chunk of type tool_call whose tool_call field is undefined.
BareToolCallChunk == [type |-> "tool_call", content |-> "", tool_call |-> None]

\* An empty Partial<ToolCall>: {}
EmptyPartial == [id |-> None, type |-> None, function |-> None]

\* Variant: the record accumulated for the index is not fetched, every
\* fragment starting from an empty one.
BufferGetFresh(buf, index) == EmptyPartial

\* toolCallsBuffer.get(index) || {}
BufferGet(buf, index) ==
    IF \E k \in 1..Len(buf) : buf[k].index = index
    THEN buf[CHOOSE k \in 1..Len(buf) : buf[k].index = index].value
    ELSE EmptyPartial

\* Variant: the buffer keeps its entries sorted by the numeric index.
BufferSetSorted(buf, index, value) ==
    IF \E k \in 1..Len(buf) : buf[k].index = index
    THEN [k \in 1..Len(buf) |->
            IF buf[k].index = index THEN [index |-> index, value |-> value]
            ELSE buf[k]]
    ELSE LET below == SelectSeq(buf, LAMBDA e : e.index < index)
             above == SelectSeq(buf, LAMBDA e : e.index > index)
         IN  below \o <<[index |-> index, value |-> value]>> \o above

\* toolCallsBuffer.set(index, value): a Map keeps a key's first position.
BufferSet(buf, index, value) ==
    IF \E k \in 1..Len(buf) : buf[k].index = index
    THEN [k \in 1..Len(buf) |->
            IF buf[k].index = index THEN [index |-> index, value |-> value]
            ELSE buf[k]]
    ELSE Append(buf, [index |-> index, value |-> value])

\* if (!existing.function) existing.function = { name: '', arguments: '' }
EnsureFunction(existing) ==
    IF existing.function = None
    THEN [existing EXCEPT !.function = Some([name |-> "", arguments |-> ""])]
    ELSE existing

\* ChatOrchestrator.ts:208-210
MergeId(existing, delta) ==
    IF Truthy(delta.id) THEN [existing EXCEPT !.id = delta.id] ELSE existing

\* ChatOrchestrator.ts:211-213
MergeType(existing, delta) ==
    IF Truthy(delta.type) THEN [existing EXCEPT !.type = delta.type] ELSE existing

\* ChatOrchestrator.ts:214-217
MergeName(existing, delta) ==
    IF Truthy(DeltaName(delta))
    THEN [EnsureFunction(existing) EXCEPT !.function[1].name = DeltaName(delta)[1]]
    ELSE existing

\* Variant: an argument fragment replaces the accumulated argument text.
MergeArgumentsOverwrite(existing, delta) ==
    IF Truthy(DeltaArguments(delta))
    THEN [EnsureFunction(existing) EXCEPT
            !.function[1].arguments = DeltaArguments(delta)[1]]
    ELSE existing

\* ChatOrchestrator.ts:218-221
MergeArguments(existing, delta) ==
    IF Truthy(DeltaArguments(delta))
    THEN LET e == EnsureFunction(existing)
         IN  [e EXCEPT !.function[1].arguments =
                    e.function[1].arguments \o DeltaArguments(delta)[1]]
    ELSE existing

\* The body of "for (const delta of deltas)", ChatOrchestrator.ts:205-223
MergeDelta(buf, delta) ==
    LET existing == BufferGet(buf, delta.index)
        merged == MergeArguments(MergeName(MergeType(MergeId(existing, delta),
                                                     delta), delta), delta)
    IN  BufferSet(buf, delta.index, merged)

RECURSIVE MergeDeltas(_, _)
MergeDeltas(buf, deltas) ==
    IF deltas = <<>> THEN buf
    ELSE MergeDeltas(MergeDelta(buf, Head(deltas)), Tail(deltas))

\* .filter(tc => tc.id && tc.function?.name), ChatOrchestrator.ts:231
IsComplete(entry) ==
    /\ Truthy(entry.value.id)
    /\ entry.value.function # None
    /\ entry.value.function[1].name # ""

\* Variant: the map copies the accumulated argument text as it is.
ToToolCallRaw(entry) ==
    [id |-> entry.value.id[1],
     type |-> "function",
     function |->
        [name |-> entry.value.function[1].name,
         arguments |-> entry.value.function[1].arguments]]

\* .map(tc => ({...})), ChatOrchestrator.ts:232-239
ToToolCall(entry) ==
    [id |-> entry.value.id[1],
     type |-> "function",
     function |->
        [name |-> entry.value.function[1].name,
         arguments |-> IF entry.value.function[1].arguments = "" THEN "{}"
                       ELSE entry.value.function[1].arguments]]

\* Array.from(toolCallsBuffer.values()).filter(...).map(...)
FinalizeToolCalls(buf) ==
    LET kept == SelectSeq(buf, IsComplete)
    IN  [k \in 1..Len(kept) |-> ToToolCall(kept[k])]

\* Variant: the assistant message never carries the tool calls.
AssistantMessageNoCalls(content, calls) ==
    [role |-> "assistant", content |-> content, tool_calls |-> None]

\* ChatOrchestrator.ts:241-246
AssistantMessage(content, calls) ==
    [role |-> "assistant",
     content |-> content,
     tool_calls |-> IF Len(calls) > 0 THEN Some(calls) ELSE None]

\* Variant: the tool message is keyed by the name of the called function.
ToolMessageByName(content, toolCall) ==
    [role |-> "tool", content |-> content, tool_call_id |-> toolCall.function.name]

\* ChatOrchestrator.ts:104-109 and 124-129
ToolMessage(content, toolCall) ==
    [role |-> "tool", content |-> content, tool_call_id |-> toolCall.id]

(***************************************************************************)
(* The dispatcher: executeToolCall, ChatOrchestrator.ts:286-312             *)
(***************************************************************************)
\* JSON.parse on the argument texts the streams of this model can build
\* (concatenations of "{", "}", "{}", "{invalid" and "null" pieces): the
\* well-formed ones and what each parses to; every other one is a SyntaxError.
JSONParse(text) ==
    CASE text = "{}" -> Some([kind |-> "object", text |-> "{}"])
      [] text = "null" -> Some([kind |-> "null", text |-> "null"])
      [] OTHER -> None

\* Variant: the lookup returns the last catalog entry of that name.
FindToolLast(availableTools, toolName) ==
    IF \E k \in 1..Len(availableTools) : availableTools[k].name = toolName
    THEN Some(availableTools[CHOOSE k \in 1..Len(availableTools) :
                /\ availableTools[k].name = toolName
                /\ \A j \in (k + 1)..Len(availableTools) :
                      availableTools[j].name # toolName])
    ELSE None

\* availableTools.find(t => t.name === toolName)
FindTool(availableTools, toolName) ==
    IF \E k \in 1..Len(availableTools) : availableTools[k].name = toolName
    THEN Some(availableTools[CHOOSE k \in 1..Len(availableTools) :
                /\ availableTools[k].name = toolName
                /\ \A j \in 1..(k - 1) : availableTools[j].name # toolName])
    ELSE None

\* What executeToolCall does before it awaits the provider: it throws (the
\* promise is rejected with that message) or it calls mcpService.executeTool.
ExecuteToolCall(toolCall, availableTools) ==
    LET toolName == toolCall.function.name
        tool == FindTool(availableTools, toolName)
        args == JSONParse(toolCall.function.arguments)
    IN  IF tool = None
        THEN [threw |-> TRUE, message |-> "Tool '" \o toolName \o "' not found"]
        ELSE IF args = None
        THEN [threw |-> TRUE,
              message |-> "Invalid tool arguments: " \o "Unexpected token"]
        ELSE [threw |-> FALSE,
              serverId |-> tool[1].serverId,
              toolName |-> toolName,
              args |-> args[1]]

\* new Error(`Tool execution timeout after ${TOOL_EXECUTION_TIMEOUT}ms`)
TimeoutMessage ==
    "Tool execution timeout after " \o ToString(TOOL_EXECUTION_TIMEOUT) \o "ms"

\* JSON.stringify(item.data, null, 2) on the payloads of this model.
JSONStringify(data) ==
    CASE data = "obj" -> "{\n  \"k\": 1\n}"
      [] OTHER -> "\"" \o data \o "\""

\* The .map of formatToolResult, ChatOrchestrator.ts:322-330
FormatItem(item) ==
    IF item.type = "text" /\ Truthy(item.text) THEN item.text[1]
    ELSE IF Truthy(item.data) THEN JSONStringify(item.data[1])
    ELSE ""

RECURSIVE Join(_, _)
Join(pieces, sep) ==
    IF pieces = <<>> THEN ""
    ELSE IF Len(pieces) = 1 THEN pieces[1]
    ELSE pieces[1] \o sep \o Join(Tail(pieces), sep)

NonEmpty(s) == s # ""

\* The .map and the .filter of formatToolResult, ChatOrchestrator.ts:321-331
FormatPieces(result) ==
    LET mapped == [k \in 1..Len(result.content) |-> FormatItem(result.content[k])]
    IN  SelectSeq(mapped, NonEmpty)

\* formatToolResult, ChatOrchestrator.ts:320-333
formatToolResult(result) == Join(FormatPieces(result), "\n\n")

\* Variant: the event reports an error whenever the result has the flag.
IsErrorFlagPresent(result) == result.isError # None

\* result.isError || false, ChatOrchestrator.ts:118
IsErrorFlag(result) == result.isError # None /\ result.isError[1]

(***************************************************************************)
(* Inputs                                                                   *)
(***************************************************************************)
InputMessages ==
    { <<UserMessage("hi")>>, <<SystemMessage("sys"), UserMessage("hi")>> }

StreamErrors == {"Cannot reach LLM endpoint"}
ProviderErrors == {"Server not connected"}

\* Response time of mcpService.executeTool, in ms: under or over the timeout.
Latencies == {1, TOOL_EXECUTION_TIMEOUT + 1}

Fn == Some("function")
\* The default stream: one complete call of the catalogued tool t1.
DefaultChunk == ToolCallChunk(<<Delta(0, Some("a"), Fn, Some("t1"), Some("{}"))>>)

\* The chunks a stream of a whole run is drawn from.
RunChunks ==
    { DefaultChunk,
      ContentChunk("x"),
      \* two calls in one chunk: an unknown tool, then a catalogued one
      ToolCallChunk(<<Delta(0, Some("a"), Fn, Some("tx"), Some("{}")),
                      Delta(1, Some("b"), Fn, Some("t1"), None)>>),
      \* unparsable argument text
      ToolCallChunk(<<Delta(0, Some("a"), Fn, Some("t1"), Some("{invalid"))>>),
      \* an id without a name: dropped when the stream ends
      ToolCallChunk(<<Delta(0, Some("a"), Fn, None, None)>>),
      \* another index
      ToolCallChunk(<<Delta(1, Some("b"), Fn, Some("t2"), Some("{}"))>>) }

\* The fragments a single turn explored on its own is drawn from: per index,
\* fragments carrying one field, and a first fragment carrying them all.
Indices == {0, 1}
FragmentIds == {"", "a", "b"}
FragmentNames == {"", "t1", "tx"}
ArgumentFragments == {"", "{", "}"}
AccDeltas ==
    UNION { { Delta(i, Some(id), None, None, None) : id \in FragmentIds }
            \cup { Delta(i, None, None, Some(nm), None) : nm \in FragmentNames }
            \cup { Delta(i, None, None, None, Some(ar)) : ar \in ArgumentFragments }
            \cup { Delta(i, None, Fn, None, None),
                   Delta(i, Some("a"), Fn, Some("t1"), Some("{")) }
          : i \in Indices }
AccChunks ==
    { ToolCallChunk(<<d>>) : d \in AccDeltas }
    \cup { ToolCallChunk(<<>>), BareToolCallChunk,
           ContentChunk("x"), ContentChunk("y"), ContentChunk("") }

\* The fragments the dispatcher explored on its own is fed with: fragment k
\* of a chunk is for index k - 1 and carries its id or none, a catalogued
\* name, an unknown name or none, and no argument text, text that parses to
\* null or text that does not parse.
CallIds == <<"a", "b", "c", "d">>
DispatchNames == {None, Some("t1"), Some("tx")}
DispatchArguments == {None, Some("null"), Some("{invalid")}
DispatchDeltas(i) ==
    { Delta(i, id, Fn, nm, ar) :
        id \in {None, Some(CallIds[i + 1])},
        nm \in DispatchNames,
        ar \in DispatchArguments }
DispatchChunks ==
    { ToolCallChunk(ds) :
        ds \in UNION { { f \in [1..n -> UNION {DispatchDeltas(i) : i \in 0..(n - 1)}] :
                            \A k \in 1..n : f[k].index = k - 1 }
                       : n \in 1..MaxCalls } }

\* The fragments a turn explored for the order of its calls is fed with, one
\* per chunk: for each index a fragment with its id alone, one with its name
\* alone and one with both; index 0 names a catalogued tool, index 1 an
\* unknown one.
OrderNames == <<"t1", "tx">>
OrderDeltas ==
    UNION { { Delta(i, Some(CallIds[i + 1]), None, None, None),
              Delta(i, None, None, Some(OrderNames[i + 1]), None),
              Delta(i, Some(CallIds[i + 1]), Fn, Some(OrderNames[i + 1]), None) }
          : i \in Indices }
OrderChunks == { ToolCallChunk(<<d>>) : d \in OrderDeltas }

\* A non-default input is taken only while the run has variations left.
Vary(isDefault) ==
    IF isDefault THEN UNCHANGED variations
    ELSE /\ variations < MaxVariations
         /\ variations' = variations + 1

(***************************************************************************)
(* chatWithTools, ChatOrchestrator.ts:58-169                                *)
(***************************************************************************)
\* The locals of a run as it starts, lines 69-71.
InitRun ==
    /\ messages \in InputMessages
    /\ conversationHistory = messages
    /\ continueLoop = TRUE
    /\ iteration = 0
    /\ pc = "loop"
    /\ events = <<>>
    /\ contentBuffer = ""
    /\ toolCallsBuffer = <<>>
    /\ finishReason = "stop"
    /\ toolCalls = <<>>
    /\ callIdx = 1
    /\ dispatch = [status |-> "idle"]
    /\ provider = {}
    /\ executed = <<>>
    /\ streamsOpened = 0
    /\ streamInput = <<>>
    /\ delivered = <<>>
    /\ turnLog = <<>>

\* One run of chatWithTools on the orchestrator.
Init == InitRun /\ variations = 0 /\ other = None

Yield(event) == events' = Append(events, event)

\* Variant: conversationHistory = messages, one array under two names.
SameArray == FALSE

\* let conversationHistory = [...messages], line 69: the spread builds a new
\* array, so the transcript of the run and the caller's array are two objects.
SpreadCopies == TRUE

\* conversationHistory.push(message), lines 88, 110, 130 and 145
Push(message) ==
    /\ conversationHistory' = Append(conversationHistory, message)
    /\ messages' = IF SpreadCopies THEN messages ELSE Append(messages, message)

\* Variant: the loop condition tests the iteration count alone.
LoopIgnoresContinue == iteration < MAX_ITERATIONS

\* while (continueLoop && iteration < MAX_ITERATIONS), line 73
LoopCondition == continueLoop /\ iteration < MAX_ITERATIONS

\* The head of the while loop; entering it starts accumulateStreamingResponse,
\* which opens the model stream (lines 74-81, 185-189).
LoopHead ==
    /\ pc = "loop"
    /\ IF LoopCondition
       THEN /\ iteration' = iteration + 1
            /\ contentBuffer' = ""
            /\ toolCallsBuffer' = <<>>
            /\ finishReason' = "stop"
            /\ streamsOpened' = streamsOpened + 1
            /\ streamInput' = conversationHistory
            /\ delivered' = <<>>
            /\ pc' = "stream"
       ELSE /\ pc' = "after"
            /\ UNCHANGED <<iteration, accVars, streamsOpened, streamInput, delivered>>
    /\ UNCHANGED <<messages, conversationHistory, continueLoop, events, toolVars,
                   turnLog, variations, other>>

\* Variant: text is buffered and not re-emitted.
StreamChunkSilent(chunk) ==
    /\ pc = "stream"
    /\ delivered' = Append(delivered, chunk)
    /\ IF chunk.type = "content" /\ chunk.content # ""
       THEN /\ contentBuffer' = contentBuffer \o chunk.content
            /\ UNCHANGED events
       ELSE UNCHANGED <<contentBuffer, events>>
    /\ IF chunk.type = "tool_call" /\ chunk.tool_call # None
       THEN /\ toolCallsBuffer' = MergeDeltas(toolCallsBuffer, chunk.tool_call[1])
            /\ finishReason' = "tool_calls"
       ELSE UNCHANGED <<toolCallsBuffer, finishReason>>
    /\ UNCHANGED <<messages, conversationHistory, loopVars, pc, toolVars,
                   streamsOpened, streamInput, other, turnLog>>

\* One pass of "for await (const chunk of stream)", lines 191-227.
StreamChunk(chunk) ==
    /\ pc = "stream"
    /\ delivered' = Append(delivered, chunk)
    /\ IF chunk.type = "content" /\ chunk.content # ""
       THEN /\ contentBuffer' = contentBuffer \o chunk.content
            /\ Yield([type |-> "content", content |-> chunk.content])
       ELSE UNCHANGED <<contentBuffer, events>>
    /\ IF chunk.type = "tool_call" /\ chunk.tool_call # None
       THEN /\ toolCallsBuffer' = MergeDeltas(toolCallsBuffer, chunk.tool_call[1])
            /\ finishReason' = "tool_calls"
       ELSE UNCHANGED <<toolCallsBuffer, finishReason>>
    /\ UNCHANGED <<messages, conversationHistory, loopVars, pc, toolVars,
                   streamsOpened, streamInput, other, turnLog>>

\* Variant: the catch of lines 149-156 reports the error and lets the loop
\* go on, which opens a stream again on the unchanged transcript.
StreamErrorRetries(message) ==
    /\ pc = "stream"
    /\ Yield([type |-> "error", error |-> message])
    /\ pc' = "loop"
    /\ turnLog' = Append(turnLog, [finishReason |-> "error", toolCalls |-> <<>>])
    /\ UNCHANGED <<messages, conversationHistory, loopVars, accVars, toolVars,
                   streamsOpened, streamInput, other, delivered, variations>>

\* Variant: the catch of lines 149-156 returns from the generator instead of
\* breaking out of the loop.
StreamErrorReturns(message) ==
    /\ pc = "stream"
    /\ Yield([type |-> "error", error |-> message])
    /\ pc' = "done"
    /\ turnLog' = Append(turnLog, [finishReason |-> "error", toolCalls |-> <<>>])
    /\ UNCHANGED <<messages, conversationHistory, loopVars, accVars, toolVars,
                   streamsOpened, streamInput, other, delivered, variations>>

\* Variant: the catch of lines 149-156 appends the text buffered before the
\* failure as an assistant message.
StreamErrorKeepsPartial(message) ==
    /\ pc = "stream"
    /\ Yield([type |-> "error", error |-> message])
    /\ pc' = "after"
    /\ turnLog' = Append(turnLog, [finishReason |-> "error", toolCalls |-> <<>>])
    /\ conversationHistory' =
          Append(conversationHistory, AssistantMessage(contentBuffer, <<>>))
    /\ UNCHANGED <<messages, loopVars, accVars, toolVars,
                   streamsOpened, streamInput, other, delivered, variations>>

\* The model stream raises: the error leaves accumulateStreamingResponse
\* uncaught and reaches the catch of lines 149-156.
StreamError(message) ==
    /\ pc = "stream"
    /\ Yield([type |-> "error", error |-> message])
    /\ pc' = "after"
    /\ turnLog' = Append(turnLog, [finishReason |-> "error", toolCalls |-> <<>>])
    /\ UNCHANGED <<messages, conversationHistory, loopVars, accVars, toolVars,
                   streamsOpened, streamInput, other, delivered, variations>>

\* if (finishReason === 'tool_calls' && toolCalls.length > 0), line 86
WantsTools(reason, calls) == reason = "tool_calls" /\ Len(calls) > 0

\* Variant: the else branch of lines 143-148 ends the loop without pushing
\* the assistant message.
StreamEndFinalNotPushed ==
    /\ pc = "stream"
    /\ LET calls == FinalizeToolCalls(toolCallsBuffer)
           assistantMessage == AssistantMessage(contentBuffer, calls)
       IN  /\ turnLog' = Append(turnLog, [finishReason |-> finishReason,
                                          toolCalls |-> calls])
           /\ IF WantsTools(finishReason, calls)
              THEN /\ Push(assistantMessage)
                   /\ toolCalls' = calls
                   /\ callIdx' = 1
                   /\ pc' = "tools"
                   /\ UNCHANGED continueLoop
              ELSE /\ UNCHANGED <<messages, conversationHistory>>
                   /\ continueLoop' = FALSE
                   /\ pc' = "loop"
                   /\ UNCHANGED <<toolCalls, callIdx>>
    /\ UNCHANGED <<iteration, events, accVars, dispatch, provider,
                   executed, streamsOpened, streamInput, other, delivered, variations>>

\* The stream ends: lines 229-252, then lines 83-88 or 143-148.
StreamEnd ==
    /\ pc = "stream"
    /\ LET calls == FinalizeToolCalls(toolCallsBuffer)
           assistantMessage == AssistantMessage(contentBuffer, calls)
       IN  /\ Push(assistantMessage)
           /\ turnLog' = Append(turnLog, [finishReason |-> finishReason,
                                          toolCalls |-> calls])
           /\ IF WantsTools(finishReason, calls)
              THEN /\ toolCalls' = calls
                   /\ callIdx' = 1
                   /\ pc' = "tools"
                   /\ UNCHANGED continueLoop
              ELSE /\ continueLoop' = FALSE
                   /\ pc' = "loop"
                   /\ UNCHANGED <<toolCalls, callIdx>>
    /\ UNCHANGED <<iteration, events, accVars, dispatch, provider,
                   executed, streamsOpened, streamInput, other, delivered, variations>>

\* Variant: the loop body always reads the first call of the list.
FirstCall == toolCalls[1]

\* The call the for loop of line 91 is at.
CurrentCall == toolCalls[callIdx]

\* Lines 94-101: the start event, then executeToolCallWithTimeout, which arms
\* the timer and runs executeToolCall up to its first await.  A provider call
\* that is made takes `latency` ms to answer.
ToolStart(latency) ==
    /\ pc = "tools"
    /\ callIdx <= Len(toolCalls)
    /\ Yield([type |-> "tool_execution_start",
              toolName |-> CurrentCall.function.name,
              toolCallId |-> CurrentCall.id])
    /\ LET outcome == ExecuteToolCall(CurrentCall, tools)
       IN  IF outcome.threw
           THEN /\ dispatch' = [status |-> "rejected", message |-> outcome.message]
                /\ latency = 1
                /\ UNCHANGED <<provider, executed, variations>>
           ELSE LET call == [seq |-> Len(executed) + 1,
                             toolCallId |-> CurrentCall.id,
                             latency |-> latency]
                IN  /\ dispatch' = [status |-> "pending", call |-> call]
                    /\ provider' = provider \cup {call}
                    /\ executed' = Append(executed,
                                          [serverId |-> outcome.serverId,
                                           toolName |-> outcome.toolName,
                                           args |-> outcome.args])
                    /\ Vary(latency < TOOL_EXECUTION_TIMEOUT)
    /\ pc' = "exec"
    /\ UNCHANGED <<messages, conversationHistory, loopVars, accVars, toolCalls,
                   callIdx, streamsOpened, streamInput, other, delivered, turnLog>>

\* Variant: a successful dispatch yields its result event and appends no
\* tool message.
CallSucceededNoMessage(result) ==
    /\ UNCHANGED <<messages, conversationHistory>>
    /\ Yield([type |-> "tool_execution_result",
              toolName |-> toolCalls[callIdx].function.name,
              toolCallId |-> toolCalls[callIdx].id,
              isError |-> IsErrorFlag(result)])

\* Lines 102-119: the awaited promise resolved with `result`.
CallSucceeded(result) ==
    /\ Push(ToolMessage(formatToolResult(result), CurrentCall))
    /\ Yield([type |-> "tool_execution_result",
              toolName |-> CurrentCall.function.name,
              toolCallId |-> CurrentCall.id,
              isError |-> IsErrorFlag(result)])

\* Variant: the catch of lines 120-138 reports the failure and appends no
\* tool message.
CallFailedNoMessage(message) ==
    /\ UNCHANGED <<messages, conversationHistory>>
    /\ Yield([type |-> "tool_execution_result",
              toolName |-> toolCalls[callIdx].function.name,
              toolCallId |-> toolCalls[callIdx].id,
              isError |-> TRUE])

\* Lines 120-138: the awaited promise rejected with an error of `message`.
CallFailed(message) ==
    /\ Push(ToolMessage("Error executing " \o CurrentCall.function.name
                           \o ": " \o message, CurrentCall))
    /\ Yield([type |-> "tool_execution_result",
              toolName |-> CurrentCall.function.name,
              toolCallId |-> CurrentCall.id,
              isError |-> TRUE])

\* Variant: the for loop steps over the call after the one just dispatched.
NextCallSkips ==
    /\ callIdx' = callIdx + 2
    /\ dispatch' = [status |-> "idle"]
    /\ pc' = "tools"
    /\ UNCHANGED <<loopVars, accVars, toolCalls, executed,
                   streamsOpened, streamInput, other, delivered, turnLog>>

\* The for loop moves to the next call.
NextCall ==
    /\ callIdx' = callIdx + 1
    /\ dispatch' = [status |-> "idle"]
    /\ pc' = "tools"
    /\ UNCHANGED <<loopVars, accVars, toolCalls, executed,
                   streamsOpened, streamInput, other, delivered, turnLog>>

\* executeToolCall threw before reaching the provider (lines 294-304): the
\* race of line 273 rejects with that error.
DispatchThrows ==
    /\ pc = "exec"
    /\ dispatch.status = "rejected"
    /\ CallFailed(dispatch.message)
    /\ NextCall
    /\ UNCHANGED <<provider, variations>>

\* Variant: the dispatch awaits the provider alone, without the race of
\* line 273.
AwaitsProviderOnly == TRUE

\* Whether the provider call of the awaited dispatch answers before the timer.
AnswersInTime == dispatch.call.latency < TOOL_EXECUTION_TIMEOUT

\* mcpService.executeTool resolves before the timer fires.
ProviderResolves(result) ==
    /\ pc = "exec"
    /\ dispatch.status = "pending"
    /\ AnswersInTime
    /\ Vary(result = ResultOk)
    /\ provider' = provider \ {dispatch.call}
    /\ CallSucceeded(result)
    /\ NextCall

\* mcpService.executeTool rejects before the timer fires.
ProviderRejects(message) ==
    /\ pc = "exec"
    /\ dispatch.status = "pending"
    /\ AnswersInTime
    /\ Vary(FALSE)
    /\ provider' = provider \ {dispatch.call}
    /\ CallFailed(message)
    /\ NextCall

\* Variant: the timer is never armed, the dispatch awaiting the provider alone.
TimerNotArmed == FALSE /\ UNCHANGED vars

\* The timer of lines 266-271 fires first: the race rejects with the timeout
\* error; the provider call is left running.
TimerFires ==
    /\ pc = "exec"
    /\ dispatch.status = "pending"
    /\ ~AnswersInTime
    /\ CallFailed(TimeoutMessage)
    /\ NextCall
    /\ UNCHANGED <<provider, variations>>

\* Variant: the late answer of an abandoned provider call is appended to the
\* transcript as a tool message for that call.
AbandonedCompletesLate ==
    /\ \E call \in provider :
          /\ ~(dispatch.status = "pending" /\ dispatch.call = call)
          /\ provider' = provider \ {call}
          /\ conversationHistory' =
                Append(conversationHistory,
                       [role |-> "tool", content |-> "r",
                        tool_call_id |-> call.toolCallId])
    /\ UNCHANGED <<messages, loopVars, pc, events, accVars,
                   toolCalls, callIdx, dispatch, executed, streamsOpened,
                   streamInput, other,
                   delivered, turnLog, variations>>

\* A provider call abandoned by a timeout completes (resolves or rejects):
\* the race it belonged to is already settled.
AbandonedCompletes ==
    /\ \E call \in provider :
          /\ ~(dispatch.status = "pending" /\ dispatch.call = call)
          /\ provider' = provider \ {call}
    /\ UNCHANGED <<messages, conversationHistory, loopVars, pc, events, accVars,
                   toolCalls, callIdx, dispatch, executed, streamsOpened,
                   streamInput, other,
                   delivered, turnLog, variations>>

\* Variant: the for loop is left after its first call.
ToolsDoneEarly ==
    /\ pc = "tools"
    /\ callIdx > 1
    /\ continueLoop' = TRUE
    /\ pc' = "loop"
    /\ UNCHANGED <<messages, conversationHistory, iteration, events, accVars,
                   toolVars, streamsOpened, streamInput, other, delivered,
                   turnLog, variations>>

\* The for loop is over: continueLoop = true, line 142.
ToolsDone ==
    /\ pc = "tools"
    /\ callIdx > Len(toolCalls)
    /\ continueLoop' = TRUE
    /\ pc' = "loop"
    /\ UNCHANGED <<messages, conversationHistory, iteration, events, accVars,
                   toolVars, streamsOpened, streamInput, other, delivered,
                   turnLog, variations>>

\* Variant: the limit test is passed only beyond MAX_ITERATIONS.
SafetyLimitPassed == iteration > MAX_ITERATIONS

\* if (iteration >= MAX_ITERATIONS), line 160
SafetyLimitReached == iteration >= MAX_ITERATIONS

\* Lines 159-166.
SafetyLimit ==
    /\ pc = "after"
    /\ IF SafetyLimitReached
       THEN Yield([type |-> "error",
                   error |-> "Maximum tool execution iterations reached. Stopping for safety."])
       ELSE UNCHANGED events
    /\ pc' = "final"
    /\ UNCHANGED <<messages, conversationHistory, loopVars, accVars, toolVars,
                   streamsOpened, streamInput, other, delivered, turnLog, variations>>

\* yield { type: 'done' }, line 168
YieldDone ==
    /\ pc = "final"
    /\ Yield([type |-> "done"])
    /\ pc' = "done"
    /\ UNCHANGED <<messages, conversationHistory, loopVars, accVars, toolVars,
                   streamsOpened, streamInput, other, delivered, turnLog, variations>>

(***************************************************************************)
(* Specifications                                                           *)
(***************************************************************************)
\* A chunk of a whole run's stream: the default chunk is free as the first
\* tool-call chunk of the stream, any other chunk is a variation.
RunStreamChunk ==
    /\ Len(delivered) < MaxChunks
    /\ \E chunk \in RunChunks :
          /\ Vary(chunk = DefaultChunk /\ finishReason = "stop")
          /\ StreamChunk(chunk)

Next ==
    \/ LoopHead
    \/ RunStreamChunk
    \/ \E message \in StreamErrors : StreamError(message)
    \/ StreamEnd
    \/ \E latency \in Latencies : ToolStart(latency)
    \/ DispatchThrows
    \/ \E result \in Results : ProviderResolves(result)
    \/ \E message \in ProviderErrors : ProviderRejects(message)
    \/ TimerFires
    \/ AbandonedCompletes
    \/ ToolsDone
    \/ SafetyLimit
    \/ YieldDone

Spec == Init /\ [][Next]_vars

\* A single turn on its own: the first stream of a run, over every fragment
\* sequence of up to MaxDeltas chunks, until accumulateStreamingResponse returns.
AccStreamChunk ==
    /\ Len(delivered) < MaxDeltas
    /\ \E chunk \in AccChunks :
          /\ UNCHANGED variations
          /\ StreamChunk(chunk)

NextAcc ==
    \/ (iteration = 0 /\ LoopHead)
    \/ AccStreamChunk
    \/ StreamEnd

InitAcc == Init /\ messages = <<UserMessage("hi")>>

AccSpec == InitAcc /\ [][NextAcc]_vars

(***************************************************************************)
(* Fairness: a timer that is armed fires (the event loop runs).             *)
(***************************************************************************)
FairSpec == Spec /\ WF_vars(TimerFires)

\* The steps the generator takes by itself whenever its consumer pulls.
GeneratorStep ==
    \/ LoopHead
    \/ \E latency \in Latencies : ToolStart(latency)
    \/ DispatchThrows
    \/ ToolsDone
    \/ SafetyLimit
    \/ YieldDone

\* What moves a run on: the consumer pulling, an armed timer firing, a
\* provider call whose latency is under the timeout being answered, and a
\* model stream ending.  In any state at most one of the four is enabled.
Progress ==
    \/ GeneratorStep
    \/ TimerFires
    \/ \E result \in Results : ProviderResolves(result)
    \/ StreamEnd

\* Fairness for termination: the consumer keeps pulling, an armed timer
\* fires, a provider call whose latency is under the timeout is answered, and
\* (the proviso of the claim) every model stream ends.
LiveSpec == Spec /\ WF_vars(Progress)

\* The first turn of a run whose stream delivers one chunk of tool-call
\* fragments, up to the end of the turn's dispatches.
DispatchStreamChunk ==
    /\ delivered = <<>>
    /\ \E chunk \in DispatchChunks :
          /\ UNCHANGED variations
          /\ StreamChunk(chunk)

NextDispatch ==
    \/ (iteration = 0 /\ LoopHead)
    \/ DispatchStreamChunk
    \/ StreamEnd
    \/ \E latency \in Latencies : ToolStart(latency)
    \/ DispatchThrows
    \/ \E result \in Results : ProviderResolves(result)
    \/ \E message \in ProviderErrors : ProviderRejects(message)
    \/ TimerFires
    \/ AbandonedCompletes
    \/ ToolsDone

DispatchSpec == InitAcc /\ [][NextDispatch]_vars

\* The first turn of a run whose stream delivers up to MaxDeltas chunks of one
\* fragment each, the indices in any interleaving, up to the end of the
\* turn's dispatches.
OrderStreamChunk ==
    /\ Len(delivered) < MaxDeltas
    /\ \E chunk \in OrderChunks :
          /\ UNCHANGED variations
          /\ StreamChunk(chunk)

NextOrder ==
    \/ (iteration = 0 /\ LoopHead)
    \/ OrderStreamChunk
    \/ StreamEnd
    \/ \E latency \in Latencies : ToolStart(latency)
    \/ DispatchThrows
    \/ \E result \in Results : ProviderResolves(result)
    \/ \E message \in ProviderErrors : ProviderRejects(message)
    \/ TimerFires
    \/ AbandonedCompletes
    \/ ToolsDone

OrderSpec == InitAcc /\ [][NextOrder]_vars

\* Two runs of chatWithTools on one orchestrator.  A generator's locals live
\* in its own frame (lines 69-71 and 185-187 are `let` declarations inside
\* the two functions; the class, lines 36-40, has no field but the two
\* service references): the frame of the run that is not executing is kept
\* in `other`.
Frame ==
    [messages |-> messages, conversationHistory |-> conversationHistory,
     continueLoop |-> continueLoop, iteration |-> iteration, pc |-> pc,
     events |-> events, contentBuffer |-> contentBuffer,
     toolCallsBuffer |-> toolCallsBuffer, finishReason |-> finishReason,
     toolCalls |-> toolCalls, callIdx |-> callIdx, dispatch |-> dispatch,
     provider |-> provider, executed |-> executed,
     streamsOpened |-> streamsOpened, streamInput |-> streamInput,
     delivered |-> delivered, turnLog |-> turnLog, variations |-> variations]

\* The frame of a run of `input` that has not taken a step, its inputs being
\* the default ones throughout.
FreshFrame(input) ==
    [messages |-> input, conversationHistory |-> input,
     continueLoop |-> TRUE, iteration |-> 0, pc |-> "loop",
     events |-> <<>>, contentBuffer |-> "",
     toolCallsBuffer |-> <<>>, finishReason |-> "stop",
     toolCalls |-> <<>>, callIdx |-> 1, dispatch |-> [status |-> "idle"],
     provider |-> {}, executed |-> <<>>,
     streamsOpened |-> 0, streamInput |-> <<>>,
     delivered |-> <<>>, turnLog |-> <<>>, variations |-> MaxVariations]

\* Variant: the turn counter is a field of the orchestrator, read and written
\* by whichever run executes.
ResumeSharedCounter(saved) ==
    /\ messages' = saved.messages
    /\ conversationHistory' = saved.conversationHistory
    /\ continueLoop' = saved.continueLoop
    /\ UNCHANGED iteration
    /\ pc' = saved.pc
    /\ events' = saved.events
    /\ contentBuffer' = saved.contentBuffer
    /\ toolCallsBuffer' = saved.toolCallsBuffer
    /\ finishReason' = saved.finishReason
    /\ toolCalls' = saved.toolCalls
    /\ callIdx' = saved.callIdx
    /\ dispatch' = saved.dispatch
    /\ provider' = saved.provider
    /\ executed' = saved.executed
    /\ streamsOpened' = saved.streamsOpened
    /\ streamInput' = saved.streamInput
    /\ delivered' = saved.delivered
    /\ turnLog' = saved.turnLog
    /\ variations' = saved.variations

\* A suspended generator is resumed: it continues on its own locals.
Resume(saved) ==
    /\ messages' = saved.messages
    /\ conversationHistory' = saved.conversationHistory
    /\ continueLoop' = saved.continueLoop
    /\ iteration' = saved.iteration
    /\ pc' = saved.pc
    /\ events' = saved.events
    /\ contentBuffer' = saved.contentBuffer
    /\ toolCallsBuffer' = saved.toolCallsBuffer
    /\ finishReason' = saved.finishReason
    /\ toolCalls' = saved.toolCalls
    /\ callIdx' = saved.callIdx
    /\ dispatch' = saved.dispatch
    /\ provider' = saved.provider
    /\ executed' = saved.executed
    /\ streamsOpened' = saved.streamsOpened
    /\ streamInput' = saved.streamInput
    /\ delivered' = saved.delivered
    /\ turnLog' = saved.turnLog
    /\ variations' = saved.variations

\* The executing run is suspended at a yield or an await and the other run
\* is resumed.
Switch ==
    /\ other # None
    /\ other' = Frame
    /\ Resume(other)

NextTwo ==
    \/ LoopHead
    \/ RunStreamChunk
    \/ \E message \in StreamErrors : StreamError(message)
    \/ StreamEnd
    \/ \E latency \in Latencies : ToolStart(latency)
    \/ \E result \in Results : ProviderResolves(result)
    \/ ToolsDone
    \/ SafetyLimit
    \/ YieldDone
    \/ Switch

\* Both runs have yet to take a step; their inputs differ.
InitTwo ==
    /\ InitRun
    /\ messages = <<UserMessage("hi")>>
    /\ variations = MaxVariations
    /\ other = FreshFrame(<<SystemMessage("sys"), UserMessage("hi")>>)

TwoRunSpec == InitTwo /\ [][NextTwo]_vars

(***************************************************************************)
(* Properties                                                               *)
(***************************************************************************)
Last(seq) == seq[Len(seq)]
EventCount(type) == Cardinality({i \in 1..Len(events) : events[i].type = type})
MaxTurnsMessage == "Maximum tool execution iterations reached. Stopping for safety."
\* The generator has returned.
Finished == pc = "done"
\* The messages the run has appended to its copy of the input.
Appended == SubSeq(conversationHistory, Len(messages) + 1, Len(conversationHistory))
\* The events of the dispatches of the current turn: the last ones yielded.
DispatchEvents ==
    SubSeq(events,
           Len(events) - 2 * (callIdx - 1) - (IF pc = "exec" THEN 1 ELSE 0) + 1,
           Len(events))

\* C1: a run yields `done` at most once, `done` is always the last event
\* yielded so far (nothing follows it), and a run that has returned has
\* yielded exactly one `done`.
C1_DoneOnceAndLast ==
    /\ EventCount("done") <= 1
    /\ \A i \in 1..Len(events) : events[i].type = "done" => i = Len(events)
    /\ Finished <=> EventCount("done") = 1

\* A finished run that dispatched tools, met a tool failure and was aborted.
C1_Witness ==
    /\ Finished
    /\ Last(events).type = "done"
    /\ EventCount("error") >= 1
    /\ \E i \in 1..Len(events) :
          events[i].type = "tool_execution_result" /\ events[i].isError

\* C2: a run whose last model turn was classified normal (no tool-call event
\* in its stream) yields no `error` event, whichever turn that is.
C2_NoErrorOnNormalEnd ==
    (Finished /\ turnLog # <<>> /\ Last(turnLog).finishReason = "stop")
        => EventCount("error") = 0

\* C3: a finished run all of whose model turns were classified
\* tool_invocation took 10 turns and ended with the max-turns error followed
\* by done; and no run opens more than MAX_ITERATIONS model streams.
C3_AllToolTurnsAbortAtTen ==
    /\ streamsOpened <= MAX_ITERATIONS
    /\ (/\ Finished
        /\ turnLog # <<>>
        /\ \A t \in 1..Len(turnLog) : turnLog[t].finishReason = "tool_calls")
          => /\ Len(turnLog) = MAX_ITERATIONS
             /\ Len(events) >= 2
             /\ events[Len(events) - 1].type = "error"
             /\ events[Len(events) - 1].error = MaxTurnsMessage
             /\ Last(events).type = "done"

\* C4: once a model stream has raised, the run is past its loop (it opens no
\* stream and dispatches no call any more), and when it has returned its last
\* two events are the error event carrying the stream's message, then done.
C4_StreamErrorAborts ==
    (turnLog # <<>> /\ Last(turnLog).finishReason = "error")
        => /\ pc \in {"after", "final", "done"}
           /\ streamsOpened = Len(turnLog)
           /\ Finished =>
                /\ Len(events) >= 2
                /\ events[Len(events) - 1].type = "error"
                /\ events[Len(events) - 1].error \in StreamErrors
                /\ Last(events).type = "done"

\* The steps in which a dispatched call fails: executeToolCall threw (tool
\* not in the catalog, unparsable arguments), the timer fired, or the
\* provider rejected.
FailureStep ==
    \/ DispatchThrows
    \/ TimerFires
    \/ \E message \in ProviderErrors : ProviderRejects(message)

\* The texts a failed dispatch of `call` may leave in the transcript.
FailureTexts(call) ==
    { "Error executing " \o call.function.name \o ": " \o m :
        m \in { "Tool '" \o call.function.name \o "' not found",
                "Invalid tool arguments: Unexpected token",
                TimeoutMessage } \cup ProviderErrors }

\* C5: a step in which a dispatched call fails appends exactly one tool
\* message (an explanation, answering that call), yields exactly one
\* tool_execution_result with isError true and no other event, and leaves the
\* loop at the next call of the turn with continueLoop untouched; from there
\* the run starts the next call, or after the last call goes back to the loop
\* head, where it opens the next model stream unless the turn ceiling is hit.
C5_ToolFailureRecovered ==
    /\ [][FailureStep =>
            /\ conversationHistory' =
                  Append(conversationHistory, Last(conversationHistory'))
            /\ Last(conversationHistory').role = "tool"
            /\ Last(conversationHistory').tool_call_id = toolCalls[callIdx].id
            /\ Last(conversationHistory').content \in FailureTexts(toolCalls[callIdx])
            /\ events' = Append(events,
                                [type |-> "tool_execution_result",
                                 toolName |-> toolCalls[callIdx].function.name,
                                 toolCallId |-> toolCalls[callIdx].id,
                                 isError |-> TRUE])
            /\ pc' = "tools"
            /\ callIdx' = callIdx + 1
            /\ UNCHANGED <<toolCalls, continueLoop, iteration>>]_vars
    /\ [][(pc = "tools" /\ pc' # pc) =>
            IF callIdx <= Len(toolCalls)
            THEN /\ pc' = "exec"
                 /\ events' = Append(events,
                                     [type |-> "tool_execution_start",
                                      toolName |-> toolCalls[callIdx].function.name,
                                      toolCallId |-> toolCalls[callIdx].id])
            ELSE pc' = "loop" /\ continueLoop']_vars
    /\ [][(pc = "loop" /\ continueLoop /\ pc' # pc) =>
            IF iteration < MAX_ITERATIONS
            THEN pc' = "stream" /\ streamsOpened' = streamsOpened + 1
            ELSE pc' = "after"]_vars

\* The second turn's stream is open after a turn whose first call failed and
\* whose next call was then started.
C5_Witness ==
    /\ pc = "stream"
    /\ iteration = 2
    /\ \E i \in 1..(Len(events) - 1) :
          /\ events[i].type = "tool_execution_result"
          /\ events[i].isError
          /\ events[i + 1].type = "tool_execution_start"

\* The awaited dispatch is on a provider call that does not answer within
\* the timeout.
AwaitingSilentProvider ==
    /\ pc = "exec"
    /\ dispatch.status = "pending"
    /\ dispatch.call.latency > TOOL_EXECUTION_TIMEOUT

\* The dispatch of the previous call of the turn ended as a timeout failure.
EndedAsTimeout ==
    /\ pc = "tools"
    /\ callIdx > 1
    /\ Last(conversationHistory) =
          [role |-> "tool",
           content |-> "Error executing " \o toolCalls[callIdx - 1].function.name
                          \o ": Tool execution timeout after 30000ms",
           tool_call_id |-> toolCalls[callIdx - 1].id]
    /\ Last(events) =
          [type |-> "tool_execution_result",
           toolName |-> toolCalls[callIdx - 1].function.name,
           toolCallId |-> toolCalls[callIdx - 1].id,
           isError |-> TRUE]

\* C6: a dispatch waiting on a provider call that does not answer within the
\* timeout eventually ends as a timeout failure (a tool message with the
\* timeout error, an isError tool_execution_result), the loop moving on to
\* the next call.
C6_TimeoutResolves == AwaitingSilentProvider ~> EndedAsTimeout

\* A dispatch has ended as a timeout while its provider call is still running.
C6_Witness == EndedAsTimeout /\ provider # {}

\* The run's first model turn was classified normal.
FirstTurnNormal == turnLog # <<>> /\ turnLog[1].finishReason = "stop"

\* C7 as stated: a run whose first model turn is normal appends exactly 2
\* messages, dispatches nothing and ends with done and no error.
C7_Original ==
    (Finished /\ FirstTurnNormal)
        => /\ Len(Appended) = 2
           /\ executed = <<>>
           /\ EventCount("tool_execution_start") = 0
           /\ Last(events).type = "done"
           /\ EventCount("error") = 0

\* C7 amended: a run whose first model turn is normal appends exactly 1
\* message, the assistant message of that turn (without tool calls), performs
\* no dispatch and ends with done and no error.
C7_FirstTurnNormalAppendsOne ==
    FirstTurnNormal
        => /\ Len(Appended) = 1
           /\ Appended[1].role = "assistant"
           /\ Appended[1].tool_calls = None
           /\ executed = <<>>
           /\ EventCount("tool_execution_start") = 0
           /\ EventCount("tool_execution_result") = 0
           /\ EventCount("error") = 0
           /\ pc \in {"loop", "after", "final", "done"}
           /\ Finished => Last(events).type = "done"

\* A finished run whose only turn was normal and streamed content.
C7_Witness ==
    /\ Finished
    /\ FirstTurnNormal
    /\ Len(turnLog) = 1
    /\ Appended[1].content = "x"

\* Turn 1 gave exactly one completed call and turn 2 was normal.
OneCallThenNormal ==
    /\ Len(turnLog) = 2
    /\ turnLog[1].finishReason = "tool_calls"
    /\ Len(turnLog[1].toolCalls) = 1
    /\ turnLog[2].finishReason = "stop"

\* C8: such a run appends exactly 3 messages: the turn-1 assistant message
\* carrying the call, one tool message answering it, the turn-2 assistant
\* message; and yields exactly one tool_execution_start and one
\* tool_execution_result.
C8_OneCallThenNormal ==
    (Finished /\ OneCallThenNormal)
        => /\ Len(Appended) = 3
           /\ Appended[1].role = "assistant"
           /\ Appended[1].tool_calls = Some(turnLog[1].toolCalls)
           /\ Appended[2].role = "tool"
           /\ Appended[2].tool_call_id = turnLog[1].toolCalls[1].id
           /\ Appended[3].role = "assistant"
           /\ Appended[3].tool_calls = None
           /\ EventCount("tool_execution_start") = 1
           /\ EventCount("tool_execution_result") = 1

C8_Witness == Finished /\ OneCallThenNormal /\ Len(executed) = 1

\* The fragments the open stream has delivered, in order: the deltas of its
\* tool_call chunks.
RECURSIVE FragmentsOf(_)
FragmentsOf(chunks) ==
    IF chunks = <<>> THEN <<>>
    ELSE (IF Head(chunks).type = "tool_call" /\ Head(chunks).tool_call # None
          THEN Head(chunks).tool_call[1] ELSE <<>>) \o FragmentsOf(Tail(chunks))

\* Index i received a fragment with a non-empty id / a non-empty name.
ReceivedId(i) ==
    \E k \in 1..Len(FragmentsOf(delivered)) :
        LET d == FragmentsOf(delivered)[k]
        IN  d.index = i /\ d.id # None /\ d.id[1] # ""
ReceivedName(i) ==
    \E k \in 1..Len(FragmentsOf(delivered)) :
        LET d == FragmentsOf(delivered)[k]
        IN  /\ d.index = i
            /\ d.function # None
            /\ d.function[1].name # None
            /\ d.function[1].name[1] # ""
CompleteIndices == {i \in Indices : ReceivedId(i) /\ ReceivedName(i)}

\* C9: whatever fragments a turn's stream has delivered, in whatever
\* interleaving of the indices, the calls finalized from them are as many as
\* the indices that received both a non-empty id and a non-empty name; so is
\* the completed-call list the turn returns.
C9_FinalizedCount ==
    /\ pc = "stream" =>
          Len(FinalizeToolCalls(toolCallsBuffer)) = Cardinality(CompleteIndices)
    /\ (pc # "stream" /\ turnLog # <<>>) =>
          Len(Last(turnLog).toolCalls) = Cardinality(CompleteIndices)

\* A turn has returned one call from three fragments interleaved over two
\* indices, the other index having an id and no name.
C9_Witness ==
    /\ pc # "stream"
    /\ turnLog # <<>>
    /\ Len(Last(turnLog).toolCalls) = 1
    /\ Len(FragmentsOf(delivered)) = 3
    /\ FragmentsOf(delivered)[1].index = FragmentsOf(delivered)[3].index
    /\ FragmentsOf(delivered)[2].index # FragmentsOf(delivered)[1].index
    /\ ReceivedId(0)
    /\ ReceivedId(1)

StartEvent(call) ==
    [type |-> "tool_execution_start",
     toolName |-> call.function.name,
     toolCallId |-> call.id]

\* C10: in the event sequence every tool_execution_start is directly
\* followed by the tool_execution_result of the same tool name and call id
\* (or is the last event, its dispatch being awaited), and every result
\* directly follows a start; while a turn's calls are being dispatched, the
\* transcript ends with the turn's assistant message and one tool message per
\* call already dispatched, in list order, and the events yielded since the
\* turn's stream ended are exactly the start/result pairs of those calls in
\* list order (so no content event of the turn follows its first start),
\* followed by the start of the call being awaited.
C10_SequentialDispatch ==
    /\ \A i \in 1..Len(events) :
          events[i].type = "tool_execution_start" =>
              IF i = Len(events) THEN pc = "exec"
              ELSE /\ events[i + 1].type = "tool_execution_result"
                   /\ events[i + 1].toolName = events[i].toolName
                   /\ events[i + 1].toolCallId = events[i].toolCallId
    /\ \A i \in 1..Len(events) :
          events[i].type = "tool_execution_result" =>
              i > 1 /\ events[i - 1].type = "tool_execution_start"
    /\ pc \in {"tools", "exec"} =>
          LET dispatched == callIdx - 1
              n == Len(conversationHistory)
          IN  /\ callIdx <= Len(toolCalls) + 1
              /\ n > dispatched
              /\ conversationHistory[n - dispatched].role = "assistant"
              /\ conversationHistory[n - dispatched].tool_calls = Some(toolCalls)
              /\ \A k \in 1..dispatched :
                    /\ conversationHistory[n - dispatched + k].role = "tool"
                    /\ conversationHistory[n - dispatched + k].tool_call_id
                          = toolCalls[k].id
              /\ Len(events) >= 2 * dispatched + (IF pc = "exec" THEN 1 ELSE 0)
              /\ \A k \in 1..dispatched :
                    /\ DispatchEvents[2 * k - 1] = StartEvent(toolCalls[k])
                    /\ DispatchEvents[2 * k].type = "tool_execution_result"
                    /\ DispatchEvents[2 * k].toolCallId = toolCalls[k].id
                    /\ DispatchEvents[2 * k].toolName = toolCalls[k].function.name
              /\ pc = "exec" =>
                    /\ callIdx <= Len(toolCalls)
                    /\ Last(events) = StartEvent(toolCalls[callIdx])
              /\ LET before == Len(events) - Len(DispatchEvents)
                 IN  before > 0 => events[before].type
                                      \in {"content", "tool_execution_result"}

\* Both calls of a two-call turn have been dispatched, in a second turn.
C10_Witness ==
    /\ pc = "tools"
    /\ iteration = 2
    /\ Len(toolCalls) = 2
    /\ callIdx = 3
    /\ toolCalls[1].id # toolCalls[2].id


\* C11: at most one external operation of the run is outstanding: never two
\* provider execute calls at once, and none while a model stream is open,
\* also after a dispatch has ended by timeout.
C11_OneOutstanding ==
    /\ Cardinality(provider) <= 1
    /\ pc = "stream" => provider = {}


\* C12: provided each model stream ends, every run returns (its last event
\* being done, by C1), the turn counter never passing MAX_ITERATIONS.
C12_Terminates == <>Finished /\ [](iteration <= MAX_ITERATIONS)

\* A run has returned after ten turns, a dispatch of it having timed out.
C12_Witness ==
    /\ Finished
    /\ iteration = MAX_ITERATIONS
    /\ \E i \in 1..Len(conversationHistory) :
          /\ conversationHistory[i].role = "tool"
          /\ conversationHistory[i].content = "Error executing t1: " \o TimeoutMessage


\* C14: a turn in whose stream a tool-call event was observed (finishReason
\* tool_calls) is treated as a tool turn, also when its completed-call list
\* is empty: back at the loop head after it the loop is set to continue, and
\* a run that has returned after such a last turn was stopped by the turn
\* ceiling, not ended as a final answer.
C14_ToolTurnNotFinal ==
    (turnLog # <<>> /\ Last(turnLog).finishReason = "tool_calls")
        => /\ pc = "loop" => continueLoop
           /\ Finished => Len(turnLog) = MAX_ITERATIONS


\* The tool messages answering `calls`, as far as role and call id go.
AnswersOf(msgs, calls) ==
    /\ Len(msgs) = Len(calls)
    /\ \A k \in 1..Len(calls) :
          /\ msgs[k].role = "tool"
          /\ msgs[k].tool_call_id = calls[k].id

\* C15: the transcript given to the model stream of a turn after the first
\* is the one given to the turn before, followed by the assistant message of
\* that turn (carrying the turn's completed calls) and then by one tool
\* message per completed call, in the order the calls were dispatched (list
\* order); nothing precedes, follows or is missing.
C15_NextTurnTranscript ==
    [][(pc = "loop" /\ pc' = "stream" /\ streamsOpened >= 1) =>
          LET before == streamInput
              after == streamInput'
              calls == Last(turnLog).toolCalls
          IN  /\ Len(after) = Len(before) + 1 + Len(calls)
              /\ SubSeq(after, 1, Len(before)) = before
              /\ after[Len(before) + 1].role = "assistant"
              /\ after[Len(before) + 1].tool_calls = Some(calls)
              /\ AnswersOf(SubSeq(after, Len(before) + 2, Len(after)), calls)]_vars

\* A third stream has been opened, the second turn having had two calls: its
\* transcript is three messages longer than the one the second was given.
C15_Witness ==
    /\ pc = "stream"
    /\ streamsOpened = 3
    /\ Len(turnLog[2].toolCalls) = 2
    /\ streamInput = conversationHistory
    /\ conversationHistory[Len(conversationHistory) - 2].role = "assistant"


\* C16: when the stream of the tenth turn carried a tool-call event, the
\* run ends with the turn's assistant message in the transcript followed by
\* one tool message per completed call of the turn, and its events end with
\* the start/result pair of every one of those calls, in list order, then
\* the max-turns error, then done: no dispatch of the turn is skipped by the
\* abort, and no eleventh stream is opened.
C16_TenthTurnDispatched ==
    (/\ Finished
     /\ Len(turnLog) = MAX_ITERATIONS
     /\ Last(turnLog).finishReason = "tool_calls")
    => LET calls == Last(turnLog).toolCalls
           n == Len(calls)
           h == Len(conversationHistory)
           e == Len(events)
       IN  /\ streamsOpened = MAX_ITERATIONS
           /\ h >= n + 1
           /\ conversationHistory[h - n].role = "assistant"
           /\ conversationHistory[h - n].tool_calls
                 = (IF n > 0 THEN Some(calls) ELSE None)
           /\ AnswersOf(SubSeq(conversationHistory, h - n + 1, h), calls)
           /\ e >= 2 * n + 2
           /\ events[e] = [type |-> "done"]
           /\ events[e - 1] = [type |-> "error", error |-> MaxTurnsMessage]
           /\ \A k \in 1..n :
                 /\ events[e - 2 - 2 * n + 2 * k - 1] = StartEvent(calls[k])
                 /\ events[e - 2 - 2 * n + 2 * k].type = "tool_execution_result"
                 /\ events[e - 2 - 2 * n + 2 * k].toolCallId = calls[k].id
                 /\ events[e - 2 - 2 * n + 2 * k].toolName = calls[k].function.name

\* A run has returned whose tenth turn had two completed calls.
C16_Witness ==
    /\ Finished
    /\ Len(turnLog) = MAX_ITERATIONS
    /\ Last(turnLog).finishReason = "tool_calls"
    /\ Len(Last(turnLog).toolCalls) = 2


\* C17: every step of a run leaves the transcript as it was or adds
\* messages at its end, every message already in it staying at its position
\* unchanged, and leaves the caller's input array as it was.
C17_AppendOnly ==
    [][/\ Len(conversationHistory') >= Len(conversationHistory)
       /\ SubSeq(conversationHistory', 1, Len(conversationHistory))
             = conversationHistory
       /\ messages' = messages]_vars

\* A run over a two-message input has returned with an assistant message, a
\* tool message and more appended to its transcript, the input still two
\* messages long.
C17_Witness ==
    /\ Finished
    /\ Len(messages) = 2
    /\ Len(conversationHistory) >= Len(messages) + 3
    /\ conversationHistory[Len(messages) + 1].role = "assistant"
    /\ conversationHistory[Len(messages) + 2].role = "tool"


\* The completed calls of the turns treated as tool turns so far, in turn
\* order and, within a turn, in list order.
RECURSIVE CallsOfToolTurns(_)
CallsOfToolTurns(log) ==
    IF log = <<>> THEN <<>>
    ELSE (IF WantsTools(Head(log).finishReason, Head(log).toolCalls)
          THEN Head(log).toolCalls ELSE <<>>) \o CallsOfToolTurns(Tail(log))
IsToolMessage(m) == m.role = "tool"
IsStart(e) == e.type = "tool_execution_start"
IsResult(e) == e.type = "tool_execution_result"
ToolMessages == SelectSeq(Appended, IsToolMessage)
Starts == SelectSeq(events, IsStart)
ResultEvents == SelectSeq(events, IsResult)

\* C18: the k-th tool message appended by a run, whether it reports a
\* result or a failure, carries the id of the k-th completed call the run
\* has dispatched, which is also the id of the k-th start event and of the
\* k-th result event.
C18_ToolMessageIds ==
    LET answers == ToolMessages
        calls == CallsOfToolTurns(turnLog)
        starts == Starts
        results == ResultEvents
    IN  /\ Len(answers) <= Len(calls)
        /\ Len(answers) = Len(results)
        /\ Len(answers) <= Len(starts)
        /\ \A k \in 1..Len(answers) :
              /\ answers[k].tool_call_id = calls[k].id
              /\ answers[k].tool_call_id = starts[k].toolCallId
              /\ answers[k].tool_call_id = results[k].toolCallId

\* A two-call turn has been answered by a failure message for its first
\* call and a result message for its second, the ids differing.
C18_Witness ==
    /\ Len(ToolMessages) >= 2
    /\ \E k \in 1..(Len(ToolMessages) - 1) :
          /\ ToolMessages[k].content = "Error executing tx: Tool 'tx' not found"
          /\ ToolMessages[k].tool_call_id = "a"
          /\ ToolMessages[k + 1].content = "r"
          /\ ToolMessages[k + 1].tool_call_id = "b"


\* C19: in every assistant message of the transcript that carries tool-call
\* requests, the ids of the requests are pairwise distinct, whatever
\* fragments the stream delivered.
C19_DistinctCallIds ==
    \A i \in 1..Len(conversationHistory) :
        LET m == conversationHistory[i]
        IN  (m.role = "assistant" /\ m.tool_calls # None) =>
                \A j, k \in 1..Len(m.tool_calls[1]) :
                    j # k => m.tool_calls[1][j].id # m.tool_calls[1][k].id


\* C20: the start events of a run are, in order, the starts of the
\* completed calls of its tool turns, each call once; while a turn's calls
\* are being dispatched the starts yielded so far are a prefix of them; and
\* between turns and when the run has returned, the number of start events,
\* the number of result events and the number of tool messages appended all
\* equal the number of those calls.
C20_DispatchedExactlyOnce ==
    LET calls == CallsOfToolTurns(turnLog)
        starts == Starts
        results == ResultEvents
    IN  /\ Len(starts) <= Len(calls)
        /\ \A k \in 1..Len(starts) : starts[k] = StartEvent(calls[k])
        /\ Len(results) = Len(ToolMessages)
        /\ Len(results) = Len(starts) - (IF pc = "exec" THEN 1 ELSE 0)
        /\ pc \notin {"tools", "exec"} =>
              /\ Len(starts) = Len(calls)
              /\ Len(results) = Len(calls)
              /\ Len(ToolMessages) = Len(calls)

\* A run has returned after a one-call turn, a two-call turn and a final
\* answer: three calls, three starts.
C20_Witness ==
    /\ Finished
    /\ Len(turnLog) = 3
    /\ Len(turnLog[2].toolCalls) = 2
    /\ Len(CallsOfToolTurns(turnLog)) = 3
    /\ EventCount("tool_execution_start") = 3


\* What holds of the frame of any run executing alone: its turn counter is
\* the number of streams it has opened, within the limit, and it has yielded
\* as many result events as it has appended tool messages.
RunsAsAlone(f) ==
    /\ f.iteration = f.streamsOpened
    /\ f.pc = "stream" => f.streamInput = f.conversationHistory
    /\ f.iteration <= MAX_ITERATIONS
    /\ Len(SelectSeq(f.events, IsResult))
          = Len(SelectSeq(f.conversationHistory, IsToolMessage))
    /\ SubSeq(f.conversationHistory, 1, Len(f.messages)) = f.messages

\* C13: of two runs interleaved at their suspension points in any way, the
\* suspended one's turn counter, transcript, events and other locals are
\* untouched by the steps of the executing one, and change hands intact when
\* the runs switch; every step of the executing run is a step of a run
\* executing alone on its own locals; and both frames stay as those of runs
\* executing alone.
C13_RunsIndependent ==
    /\ [][/\ other' # other => (other' = Frame /\ Frame' = other)
          /\ other' = other => Next]_vars
    /\ [](RunsAsAlone(Frame) /\ RunsAsAlone(other))

\* Both runs are under way, at different turns: one awaits a dispatch, the
\* other has its stream open.
C13_Witness ==
    /\ other # None
    /\ pc = "exec"
    /\ other.pc = "stream"
    /\ iteration >= 2
    /\ other.iteration >= 2
    /\ iteration # other.iteration
    /\ Len(events) # Len(other.events)


\* The calls of the current turn whose dispatch has begun, in list order.
StartedCalls ==
    LET n == callIdx - 1 + (IF pc = "exec" THEN 1 ELSE 0)
    IN  SubSeq(toolCalls, 1, IF n < Len(toolCalls) THEN n ELSE Len(toolCalls))
\* The name of a call is in the catalog; its argument text is well-formed.
Known(call) == \E k \in 1..Len(tools) : tools[k].name = call.function.name
WellFormed(call) == call.function.arguments \in {"{}", "null"}
KnownAndWellFormed(call) == Known(call) /\ WellFormed(call)
FirstEntry(name) ==
    tools[CHOOSE k \in 1..Len(tools) :
            /\ tools[k].name = name
            /\ \A j \in 1..Len(tools) : tools[j].name = name => k <= j]

\* C21: the provider's execute has been invoked exactly for the started
\* calls whose name is in the catalog and whose argument text parses, in
\* order, each with the serverId of the first catalog entry of that name;
\* a call with an unknown name is answered as not found whether or not its
\* argument text parses, a known call with unparsable text as invalid
\* arguments, and execute is invoked for neither.
C21_ExecuteOnlyWhenFoundAndParsed ==
    LET invoked == SelectSeq(StartedCalls, KnownAndWellFormed)
        answers == ToolMessages
    IN  /\ Len(executed) = Len(invoked)
        /\ \A j \in 1..Len(executed) :
              /\ executed[j].toolName = invoked[j].function.name
              /\ executed[j].serverId = FirstEntry(invoked[j].function.name).serverId
        /\ \A k \in 1..Len(answers) :
              LET name == toolCalls[k].function.name
              IN  /\ ~Known(toolCalls[k]) =>
                        answers[k].content = "Error executing " \o name
                                                \o ": Tool '" \o name \o "' not found"
                  /\ (Known(toolCalls[k]) /\ ~WellFormed(toolCalls[k])) =>
                        answers[k].content = "Error executing " \o name
                              \o ": Invalid tool arguments: Unexpected token"

\* A turn of two calls is over: the first, of an unknown name and with
\* unparsable arguments, was answered as not found; the second, of a name
\* the catalog holds twice, was executed on the server of the first entry.
C21_Witness ==
    /\ pc = "loop"
    /\ Len(toolCalls) = 2
    /\ toolCalls[1].function = [name |-> "tx", arguments |-> "{invalid"]
    /\ toolCalls[2].function.name = "t1"
    /\ Len(executed) = 1
    /\ executed[1].serverId = "s1"
    /\ ToolMessages[1].content = "Error executing tx: Tool 'tx' not found"


\* C22: every payload handed to the provider's execute is a key-value
\* object; a call whose argument text is well-formed but not an object (here
\* the text null) never reaches the provider.
C22_PayloadIsObject ==
    /\ \A j \in 1..Len(executed) : executed[j].args.kind = "object"
    /\ \A k \in 1..Len(StartedCalls) :
          StartedCalls[k].function.arguments = "null" =>
              Len(SelectSeq(SubSeq(StartedCalls, 1, k), KnownAndWellFormed))
                 = Len(SelectSeq(SubSeq(StartedCalls, 1, k - 1), KnownAndWellFormed))


\* The calls finalized from the latest stream (what finalize would return
\* while the stream is still open), and the one finalized for index i.
Finalized ==
    IF pc = "stream" \/ turnLog = <<>> THEN FinalizeToolCalls(toolCallsBuffer)
    ELSE Last(turnLog).toolCalls
FinalizedAt(i) ==
    LET kept == SelectSeq(toolCallsBuffer, IsComplete)
    IN  Finalized[CHOOSE p \in 1..Len(kept) : kept[p].index = i]
\* The first non-empty id among the fragments for index i.
RECURSIVE FirstId(_, _)
FirstId(frags, i) ==
    IF frags = <<>> THEN None
    ELSE IF Head(frags).index = i /\ Truthy(Head(frags).id) THEN Head(frags).id
    ELSE FirstId(Tail(frags), i)

\* C23: for every index that received a non-empty id, the accumulated id
\* is the first non-empty id received for it, and so is the id of the call
\* finalized for the index; the kind, once received, stays.
C23_FirstIdPersists ==
    /\ \A k \in 1..Len(toolCallsBuffer) :
          LET i == toolCallsBuffer[k].index
              frags == FragmentsOf(delivered)
          IN  /\ ReceivedId(i) => toolCallsBuffer[k].value.id = FirstId(frags, i)
              /\ (\E n \in 1..Len(frags) : frags[n].index = i /\ Truthy(frags[n].type))
                    => toolCallsBuffer[k].value.type = Fn
    /\ \A i \in CompleteIndices :
          /\ FinalizedAt(i).id = FirstId(FragmentsOf(delivered), i)[1]
          /\ FinalizedAt(i).type = "function"


\* The non-empty argument fragments received for index i, concatenated in
\* arrival order, and the last non-empty name received for it.
RECURSIVE ArgumentsOf(_, _)
ArgumentsOf(frags, i) ==
    IF frags = <<>> THEN ""
    ELSE (IF Head(frags).index = i /\ Truthy(DeltaArguments(Head(frags)))
          THEN DeltaArguments(Head(frags))[1] ELSE "")
            \o ArgumentsOf(Tail(frags), i)
RECURSIVE LastName(_, _)
LastName(frags, i) ==
    IF frags = <<>> THEN ""
    ELSE IF Last(frags).index = i /\ Truthy(DeltaName(Last(frags)))
    THEN DeltaName(Last(frags))[1]
    ELSE LastName(SubSeq(frags, 1, Len(frags) - 1), i)

\* C24 as stated: the argument text of the call finalized for an index is
\* the concatenation of the non-empty argument fragments of the index, its
\* name the last non-empty name fragment of the index.
C24_Original ==
    \A i \in CompleteIndices :
        /\ FinalizedAt(i).function.arguments = ArgumentsOf(FragmentsOf(delivered), i)
        /\ FinalizedAt(i).function.name = LastName(FragmentsOf(delivered), i)

\* C24, amended: the argument text of the call finalized for an index is
\* the concatenation, in arrival order, of the non-empty argument fragments
\* of the index, whatever fragments of other indices came between them, when
\* there is at least one, and {} when there is none; its name is the last
\* non-empty name fragment of the index.
C24_ArgumentsConcatenated ==
    \A i \in CompleteIndices :
        LET text == ArgumentsOf(FragmentsOf(delivered), i)
        IN  /\ FinalizedAt(i).function.arguments = (IF text = "" THEN "{}" ELSE text)
            /\ FinalizedAt(i).function.name = LastName(FragmentsOf(delivered), i)

\* A turn has returned a call for index 0 whose argument text is made of two
\* fragments, a fragment for index 1 having arrived between them.
C24_Witness ==
    /\ pc # "stream"
    /\ turnLog # <<>>
    /\ Len(FragmentsOf(delivered)) = 3
    /\ FragmentsOf(delivered)[2].index = 1
    /\ 0 \in CompleteIndices
    /\ FinalizedAt(0).function.arguments = "}{"


\* The indices the latest stream delivered fragments for, and those among
\* them that received a non-empty id and a non-empty name.
IndicesSeen ==
    {FragmentsOf(delivered)[n].index : n \in 1..Len(FragmentsOf(delivered))}
CompleteSeen == {i \in IndicesSeen : ReceivedId(i) /\ ReceivedName(i)}

\* C25: every finalized call has a non-empty id, a non-empty name and kind
\* function; the finalized calls are as many as the indices that received
\* both, the others being dropped with no error event; a finalized call whose
\* index received no argument fragment has the argument text {}, and when it
\* is dispatched the provider is handed the empty object.
C25_NoHalfFormedCall ==
    LET frags == FragmentsOf(delivered)
        invoked == SelectSeq(StartedCalls, KnownAndWellFormed)
    IN  /\ \A k \in 1..Len(Finalized) :
              /\ Finalized[k].id # ""
              /\ Finalized[k].function.name # ""
              /\ Finalized[k].type = "function"
        /\ Len(Finalized) = Cardinality(CompleteSeen)
        /\ EventCount("error") = 0
        /\ \A i \in CompleteSeen :
              ArgumentsOf(frags, i) = "" => FinalizedAt(i).function.arguments = "{}"
        /\ Len(executed) = Len(invoked)
        /\ \A j \in 1..Len(executed) :
              invoked[j].function.arguments = "{}" =>
                  executed[j].args = [kind |-> "object", text |-> "{}"]

\* A turn is over whose stream delivered a fragment with an id and no name
\* and a fragment with id and name and no argument text: one call was
\* finalized, and dispatched with the empty object.
C25_Witness ==
    /\ pc = "loop"
    /\ Len(FragmentsOf(delivered)) = 2
    /\ ReceivedId(0)
    /\ ~ReceivedName(0)
    /\ CompleteSeen = {1}
    /\ ArgumentsOf(FragmentsOf(delivered), 1) = ""
    /\ Len(toolCalls) = 1
    /\ executed = <<[serverId |-> "s1", toolName |-> "t1",
                     args |-> [kind |-> "object", text |-> "{}"]]>>


\* C26: when the stream has just delivered the same fragment twice in a
\* row, the accumulated records, and the calls finalized from them, are what
\* they would be had the fragment been delivered once.
C26_MergeIdempotent ==
    LET frags == FragmentsOf(delivered)
        n == Len(frags)
    IN  (n >= 2 /\ frags[n] = frags[n - 1]) =>
            LET once == MergeDeltas(<<>>, SubSeq(frags, 1, n - 1))
            IN  /\ toolCallsBuffer = once
                /\ FinalizeToolCalls(toolCallsBuffer) = FinalizeToolCalls(once)


\* The non-empty texts the latest stream has delivered, in stream order.
RECURSIVE TextsOf(_)
TextsOf(chunks) ==
    IF chunks = <<>> THEN <<>>
    ELSE (IF Head(chunks).type = "content" /\ Head(chunks).content # ""
          THEN <<Head(chunks).content>> ELSE <<>>) \o TextsOf(Tail(chunks))

\* C27: at every point of the first turn the events yielded are exactly
\* one content event per non-empty text fragment delivered so far, in stream
\* order (so each is emitted in the step that reads it, and tool-call
\* fragments, empty texts and the end of the stream yield nothing); the text
\* buffered, and then the content of the turn's assistant message, is the
\* concatenation of those events' contents.
C27_ContentPassThrough ==
    LET texts == TextsOf(delivered)
    IN  /\ events = [k \in 1..Len(texts) |-> [type |-> "content", content |-> texts[k]]]
        /\ pc = "stream" => contentBuffer = Join(texts, "")
        /\ (pc # "stream" /\ turnLog # <<>>) =>
              /\ Len(Appended) = 1
              /\ Appended[1].role = "assistant"
              /\ Appended[1].content = Join(texts, "")

\* A turn has ended whose stream delivered the text x, a tool-call fragment
\* and the text y.
C27_Witness ==
    /\ pc # "stream"
    /\ turnLog # <<>>
    /\ Len(delivered) = 3
    /\ delivered[2].type = "tool_call"
    /\ Len(FragmentsOf(delivered)) = 1
    /\ events = <<[type |-> "content", content |-> "x"],
                  [type |-> "content", content |-> "y"]>>
    /\ Appended[1].content = "xy"


\* C28: the streams opened are as many as the turns started, one per turn
\* (each turn that is over has ended its one stream, the turn under way has
\* its one stream open); a stream that failed is the last one of the run:
\* after it the run is past its loop and opens no stream again.
C28_OneStreamPerTurn ==
    /\ streamsOpened = iteration
    /\ streamsOpened = Len(turnLog) + (IF pc = "stream" THEN 1 ELSE 0)
    /\ \A n \in 1..Len(turnLog) :
          turnLog[n].finishReason = "error" =>
              /\ n = Len(turnLog)
              /\ pc \in {"after", "final", "done"}
              /\ streamsOpened = n

\* A run has returned whose third stream failed: three streams were opened.
C28_Witness ==
    /\ Finished
    /\ Len(turnLog) = 3
    /\ turnLog[3].finishReason = "error"
    /\ streamsOpened = 3


\* C29: the step in which the provider's result is received appends one
\* tool message whose content is the flattened text of the result and yields
\* one tool_execution_result event whose isError is the result's flag (false
\* when the result has none), for a result flagged as an error as for any
\* other; the loop is left to continue with the next call or the next turn.
C29_ResultReported ==
    [][\A result \in Results :
          ProviderResolves(result) =>
              /\ Len(events') = Len(events) + 1
              /\ Last(events').type = "tool_execution_result"
              /\ Last(events').toolCallId = toolCalls[callIdx].id
              /\ Last(events').isError = (result.isError = Some(TRUE))
              /\ Len(conversationHistory') = Len(conversationHistory) + 1
              /\ Last(conversationHistory').role = "tool"
              /\ Last(conversationHistory').content = formatToolResult(result)
              /\ pc' = "tools"
              /\ continueLoop' = continueLoop]_vars

\* The provider returned a result flagged as an error in the first turn: it
\* is in the transcript as a tool message, was reported with isError true,
\* and the second turn's stream has been opened on that transcript.
C29_Witness ==
    /\ pc = "stream"
    /\ iteration = 2
    /\ Last(conversationHistory) = [role |-> "tool", content |-> "e", tool_call_id |-> "a"]
    /\ Last(events).type = "tool_execution_result"
    /\ Last(events).isError
    /\ streamInput = conversationHistory


\* An item that is textual (its type is text and it has a text) or carries
\* a payload, and what such an item contributes to the flattened text.
Contributes(item) == (item.type = "text" /\ item.text # None) \/ item.data # None

Contribution(item) ==
    IF item.type = "text" /\ item.text # None THEN item.text[1]
    ELSE JSONStringify(item.data[1])

\* C30: the text appended for a provider's result is the contributions of the
\* result's items that are textual or carry a payload, in order and joined
\* with a blank line: the text of a textual item, the indented rendering of a
\* payload; and formatToolResult produces as many pieces as there are such
\* items.
C30_OnePiecePerItem ==
    [][\A result \in Results :
          ProviderResolves(result) =>
              LET contributing == SelectSeq(result.content, Contributes)
                  expected == [k \in 1..Len(contributing) |->
                                  Contribution(contributing[k])]
              IN  /\ Last(conversationHistory').content = Join(expected, "\n\n")
                  /\ Len(FormatPieces(result)) = Len(contributing)]_vars


\* C31: a run emits at most one error event, whatever the turn in which its
\* model stream fails.
C31_AtMostOneError ==
    Cardinality({k \in 1..Len(events) : events[k].type = "error"}) <= 1


\* The indices of the fragments `frags`, each once, in the order in which
\* they first appear.
RECURSIVE FirstAppearance(_, _)
FirstAppearance(frags, seen) ==
    IF frags = <<>> THEN <<>>
    ELSE IF Head(frags).index \in seen THEN FirstAppearance(Tail(frags), seen)
    ELSE <<Head(frags).index>>
            \o FirstAppearance(Tail(frags), seen \cup {Head(frags).index})
CompleteIndex(i) == ReceivedId(i) /\ ReceivedName(i)
IdsOf(calls) == [k \in 1..Len(calls) |-> calls[k].id]

\* C32: the completed calls of a turn are those of the indices that received
\* an id and a name, in the order in which the indices first appeared among
\* the fragments (whatever their numeric values and whenever each became
\* complete); the assistant message lists the calls in that order, and the
\* start events, the provider invocations and the tool messages follow it.
C32_FirstAppearanceOrder ==
    LET order == SelectSeq(FirstAppearance(FragmentsOf(delivered), {}), CompleteIndex)
        expected == [k \in 1..Len(order) |-> CallIds[order[k] + 1]]
        starts == Starts
        answers == ToolMessages
    IN  /\ IdsOf(Finalized) = expected
        /\ (pc # "stream" /\ turnLog # <<>>) =>
              LET assistant == conversationHistory[Len(messages) + 1]
                  listed == IF assistant.tool_calls = None THEN <<>>
                            ELSE assistant.tool_calls[1]
              IN  /\ IdsOf(listed) = expected
                  /\ Len(starts) <= Len(expected)
                  /\ \A k \in 1..Len(starts) : starts[k].toolCallId = expected[k]
                  /\ Len(answers) <= Len(starts)
                  /\ \A k \in 1..Len(answers) : answers[k].tool_call_id = expected[k]
                  /\ pc = "loop" =>
                        /\ Len(starts) = Len(expected)
                        /\ Len(answers) = Len(expected)

\* A turn is over whose stream delivered the id of index 1, then the whole
\* call of index 0, then the name of index 1: the call of index 1 is first
\* in the assistant message and was dispatched and answered first.
C32_Witness ==
    /\ pc = "loop"
    /\ Len(delivered) = 3
    /\ FragmentsOf(delivered)[1] = Delta(1, Some("b"), None, None, None)
    /\ FragmentsOf(delivered)[2].index = 0
    /\ FragmentsOf(delivered)[3] = Delta(1, None, None, Some("tx"), None)
    /\ IdsOf(conversationHistory[Len(messages) + 1].tool_calls[1]) = <<"b", "a">>
    /\ IdsOf(toolCalls) = <<"b", "a">>
    /\ Len(ToolMessages) = 2
    /\ ToolMessages[1].tool_call_id = "b"
    /\ ToolMessages[2].tool_call_id = "a"
    /\ Len(executed) = 1


\* C33: the step in which a model stream fails appends nothing to the
\* transcript, which is still the one the failing turn's stream was opened
\* on, dispatches nothing and adds the error event after the events already
\* emitted; and from then on no step changes the transcript, invokes the
\* provider or yields a start event, the events emitted before staying in
\* place.
C33_FailedTurnLeavesTranscript ==
    [][/\ \A message \in StreamErrors :
             StreamError(message) =>
                 /\ conversationHistory' = conversationHistory
                 /\ conversationHistory = streamInput
                 /\ executed' = executed
                 /\ events' = Append(events, [type |-> "error", error |-> message])
       /\ (turnLog # <<>> /\ Last(turnLog).finishReason = "error") =>
             /\ conversationHistory' = conversationHistory
             /\ conversationHistory = streamInput
             /\ executed' = executed
             /\ toolCalls' = toolCalls
             /\ Len(events') >= Len(events)
             /\ SubSeq(events', 1, Len(events)) = events
             /\ \A k \in (Len(events) + 1)..Len(events') :
                   events'[k].type \in {"error", "done"}]_vars

\* A run has returned whose first stream failed after delivering the
\* fragments of a complete call and a text: the transcript is the input, the
\* text was emitted, and nothing was dispatched.
C33_Witness ==
    /\ Finished
    /\ turnLog = <<[finishReason |-> "error", toolCalls |-> <<>>]>>
    /\ delivered = <<DefaultChunk, ContentChunk("x")>>
    /\ FinalizeToolCalls(toolCallsBuffer) # <<>>
    /\ conversationHistory = messages
    /\ events[1] = [type |-> "content", content |-> "x"]
    /\ events[2].type = "error"
    /\ EventCount("tool_execution_start") = 0
    /\ executed = <<>>


\* The tool messages of the transcript that report a timeout.
IsTimeoutMessage(m) ==
    /\ m.role = "tool"
    /\ \E k \in 1..Len(tools) :
          m.content = "Error executing " \o tools[k].name \o ": " \o TimeoutMessage

\* C34: the step in which a provider call abandoned by a timeout completes
\* changes nothing of the run: the transcript (with the timeout message
\* recorded for that call and the messages of the later calls), the events,
\* the call being dispatched and its pending outcome, the position of the
\* run and its turn log are as before; only the provider's set of running
\* calls loses the call.
C34_LateCompletionIgnored ==
    [][AbandonedCompletes =>
          /\ conversationHistory' = conversationHistory
          /\ messages' = messages
          /\ events' = events
          /\ pc' = pc
          /\ dispatch' = dispatch
          /\ toolCalls' = toolCalls
          /\ callIdx' = callIdx
          /\ continueLoop' = continueLoop
          /\ iteration' = iteration
          /\ executed' = executed
          /\ turnLog' = turnLog
          /\ Len(SelectSeq(conversationHistory, IsTimeoutMessage)) >= 1
          /\ Cardinality(provider') = Cardinality(provider) - 1]_vars

\* A run has returned whose first call timed out and whose second call was
\* answered: the abandoned provider call has completed since, the transcript
\* holding the timeout message for the first call and the result for the
\* second.
C34_Witness ==
    /\ Finished
    /\ provider = {}
    /\ Len(executed) = 2
    /\ Len(ToolMessages) = 2
    /\ ToolMessages[1].content = "Error executing t1: " \o TimeoutMessage
    /\ ToolMessages[2].content = "r"
    /\ EventCount("tool_execution_result") = 2


\* The messages `msgs` are a sequence of complete groups: an assistant
\* message followed by one tool message per request it carries (none when
\* it carries none), in the order of the requests and with their ids.
RECURSIVE CompleteGroups(_)
CompleteGroups(msgs) ==
    IF msgs = <<>> THEN TRUE
    ELSE IF Head(msgs).role # "assistant" THEN FALSE
    ELSE LET calls == IF Head(msgs).tool_calls = None THEN <<>>
                      ELSE Head(msgs).tool_calls[1]
             rest == Tail(msgs)
         IN  /\ Len(rest) >= Len(calls)
             /\ \A k \in 1..Len(calls) :
                   /\ rest[k].role = "tool"
                   /\ rest[k].tool_call_id = calls[k].id
             /\ CompleteGroups(SubSeq(rest, Len(calls) + 1, Len(rest)))

\* C35: whenever the run is not in the middle of a turn's dispatches, the
\* messages it has appended are a sequence of complete groups: every
\* assistant message with requests is followed at once by one tool message
\* per request, in order and with the request's id, and no tool message
\* stands outside such a group.
C35_CompleteGroups ==
    pc \notin {"tools", "exec"} => CompleteGroups(Appended)

\* A run is between its second and third turns, the second having carried
\* two requests, one failed and one answered: two groups are in the
\* transcript, of one and of two tool messages.
C35_Witness ==
    /\ pc = "loop"
    /\ continueLoop
    /\ Len(turnLog) = 2
    /\ Len(Appended) = 5
    /\ Len(Appended[1].tool_calls[1]) = 1
    /\ Appended[2].role = "tool"
    /\ Len(Appended[3].tool_calls[1]) = 2
    /\ Appended[4].content = "Error executing tx: Tool 'tx' not found"
    /\ Appended[5].content = "r"


\* C36: when a run has returned without an abort (it yielded no error
\* event, or its loop was ended by a final answer), the last message of its
\* transcript is an assistant message without tool-call requests, and no
\* other message the run appended is one.
C36_OneFinalAnswer ==
    (Finished /\ (EventCount("error") = 0 \/ ~continueLoop)) =>
        LET appended == Appended
            n == Len(appended)
        IN  /\ n >= 1
            /\ appended[n].role = "assistant"
            /\ appended[n].tool_calls = None
            /\ \A k \in 1..(n - 1) :
                  appended[k].role = "assistant" => appended[k].tool_calls # None

\* A run has returned without an error event after two tool turns and a
\* final answer: of the three assistant messages only the last carries no
\* request.
C36_Witness ==
    /\ Finished
    /\ EventCount("error") = 0
    /\ Len(turnLog) = 3
    /\ Len(Appended) = 5
    /\ Appended[1].tool_calls # None
    /\ Appended[3].tool_calls # None
    /\ Last(Appended) = [role |-> "assistant", content |-> "x", tool_calls |-> None]

====
